---- MODULE Spec2Model ----
(***************************************************************************)
(* Model of the scrape-and-reconcile loop (scrapers/base.py) and of the    *)
(* cross-source aggregator (common/batch_store_update.py).                 *)
(*                                                                         *)
(* Strings whose content the code inspects (status, URL path) are          *)
(* sequences of one-character strings, so that lower(), `in` and split()   *)
(* are computed, not assumed.                                              *)
(***************************************************************************)
EXTENDS Integers, Sequences, FiniteSets, TLC

(***************************************************************************)
(* Bounds of the model                                                     *)
(***************************************************************************)
MaxBatch == 2

MaxStock == 61

(***************************************************************************)
(* String helpers: str.lower() and the substring test `sub in s`           *)
(***************************************************************************)
LowerChar(c) ==
    CASE c = "S" -> "s"
      [] c = "O" -> "o"
      [] c = "I" -> "i"
      [] c = "A" -> "a"
      [] OTHER   -> c

Lower(s) == [i \in DOMAIN s |-> LowerChar(s[i])]

Contains(sub, s) ==
    \E i \in 0..(Len(s) - Len(sub)) : SubSeq(s, i + 1, i + Len(sub)) = sub

IN_STOCK == <<"i","n"," ","s","t","o","c","k">>

SOLD_OUT == <<"s","o","l","d"," ","o","u","t">>

INACTIVE == <<"i","n","a","c","t","i","v","e">>

SoldOutCaps == <<"S","o","l","d"," ","O","u","t">>

InactiveCaps == <<"I","n","a","c","t","i","v","e">>

(***************************************************************************)
(* The persisted listing store: one table, url is its primary key          *)
(***************************************************************************)
\* fetchone() returning None
NoRow == [absent |-> TRUE]

\* a key the scraped dict does not have, written as the empty sequence;
\* a present stock n is <<n>>
NoKey == <<>>

\* SQL NULL in the stock column (a present stock n is <<n>>)
NULL == <<>>

BaseCols == {"url", "title", "price", "status", "photo"}

\* CREATE TABLE IF NOT EXISTS disney_results (url, title, price, status, photo)
DisneySchema == BaseCols

\* the same table after an ad-hoc ALTER TABLE ... ADD COLUMN stock
StockSchema == BaseCols \cup {"stock"}

URLs == {"u1", "u2"}

Prices == {"1000", "1200"}

Stocks == {0, 60}

\* DisneyScraper.parse_search: status is "in stock" when stock > 0, else
\* "sold out"; a failed stock lookup keeps the defaults "in stock", 0
DisneyStatus(n) == IF n > 0 THEN {IN_STOCK} ELSE {SOLD_OUT, IN_STOCK}

DisneyRecordsOver(urls, stocks) ==
    { r \in [url : urls, price : Prices, status : {IN_STOCK, SOLD_OUT},
             stock : { <<n>> : n \in stocks }] :
        r.status \in DisneyStatus(r.stock[1]) }

DisneyRecords == DisneyRecordsOver(URLs, Stocks)

\* a BaseScraper subclass whose scrape() returns url, title, price, status, photo
GenericRecords ==
    [url : URLs, price : Prices, status : {IN_STOCK, SoldOutCaps, InactiveCaps},
     stock : {NoKey}]

Sources == {"disney_results", "generic_results"}

Records(src) == IF src = "disney_results" THEN DisneyRecords ELSE GenericRecords

RecordKeys(r) == IF r.stock = NoKey THEN BaseCols ELSE BaseCols \cup {"stock"}

BoundedSeq(S, n) == UNION { [1..k -> S] : k \in 0..n }

VARIABLES
    source,      \* table_name of the scraper
    cols,        \* columns of the source's table
    db,          \* committed rows of the table: url -> row or NoRow
    pc,          \* "idle" | "done": position in BaseScraper.run
    results,     \* list returned by scrape() in the current run
    dbBefore,    \* rows at the start of the current run
    sent,        \* send_discord_message calls of the current run, in order
    writes,      \* INSERT / UPDATE statements executed in the current run
    removedSinceSeen, \* per url: "Product Removed" sends since last observed
    item_faults, \* per listing of the current run: the failure met while handling it
    missing_faults, \* urls whose handling in the missing pass met a DB error
    sendOk,      \* per send of the current run: whether Discord accepted it
    absentRuns,  \* per url: consecutive complete passes that did not observe it
    extStore,    \* the external store's products, in the order its API lists them
    bpc,         \* "idle" | "done": position in batch_update_store
    all_scraped_products, \* argument of the current aggregation pass
    authOk,      \* whether the login request of the pass succeeded
    fetchOk,     \* whether the products-status request of the pass succeeded
    existing_products,    \* what get_existing_products_status returned
    authCalls,   \* login requests of the pass
    fetchCalls,  \* products-status requests of the pass
    updateCalls, \* update_product_statuses calls of the pass, in order
    mstep,       \* main(): index of the next step to start
    inflight,    \* main(): the coroutines started and not yet ended
    mainLog,     \* main(): start / end events of the pass, in order
    mainRaised,  \* main(): whether an exception ended the pass
    fetchFailed, \* main(): the sources whose fetch failed in the pass
    url_in,      \* argument of the current call of normalize_product_url
    handle_out,  \* <<>> before the call returns, then <<its return value>>
    cfg,         \* constructor flags of the scraper: upload, sync, brand_name set
    storeCalls,  \* requests to the external store made by the current run, in order
    reconCalls,  \* calls of process_results made by the current run
    storeBefore, \* the external store's products when the current run started
    scraped_titles,  \* titles of the list scrape() returned in the current run
    returned_titles, \* titles of the list run() returns
    prevStock    \* <<>>, or <<n>>: the stock observed by the preceding run

reconVars == <<source, cols, db, pc, results, dbBefore, sent, writes, removedSinceSeen,
               item_faults, missing_faults, sendOk, absentRuns>>

batchVars == <<extStore, bpc, all_scraped_products, authOk, fetchOk,
               existing_products, authCalls, fetchCalls, updateCalls>>

mainVars == <<mstep, inflight, mainLog, mainRaised, fetchFailed>>

urlVars == <<url_in, handle_out>>

storeVars == <<cfg, storeCalls, reconCalls, storeBefore>>

histVars == <<scraped_titles, returned_titles, prevStock>>

vars == <<reconVars, batchVars, mainVars, urlVars, storeVars, histVars>>

(***************************************************************************)
(* handle_existing_listing                                                 *)
(***************************************************************************)
alert_thresholds == <<50, 40, 30, 20, 10, 5>>

PriceLine(old, new) == [line |-> "Price changed", from |-> old, to |-> new]

StatusLine(old, new) == [line |-> "Status changed", from |-> old, to |-> new]

AlertLine(n) == [line |-> "STOCK ALERT", current |-> n]

\* faulty variant: the loop without its break
RECURSIVE StockAlertLoop_NoBreak(_, _, _)
StockAlertLoop_NoBreak(i, old_stock, new_stock) ==
    IF i > Len(alert_thresholds) THEN <<>>
    ELSE (IF old_stock > alert_thresholds[i] /\ new_stock <= alert_thresholds[i]
          THEN <<AlertLine(new_stock)>> ELSE <<>>)
         \o StockAlertLoop_NoBreak(i + 1, old_stock, new_stock)

\* for threshold in alert_thresholds: if crossed: append; break
RECURSIVE StockAlertLoop(_, _, _)
StockAlertLoop(i, old_stock, new_stock) ==
    IF i > Len(alert_thresholds) THEN <<>>
    ELSE IF old_stock > alert_thresholds[i] /\ new_stock <= alert_thresholds[i]
         THEN <<AlertLine(new_stock)>>
         ELSE StockAlertLoop(i + 1, old_stock, new_stock)

StockChanges(tcols, current_row, new_result) ==
    IF new_result.stock # NoKey /\ "stock" \in tcols
    THEN IF current_row.stock # NULL /\ new_result.stock[1] < current_row.stock[1]
         THEN StockAlertLoop(1, current_row.stock[1], new_result.stock[1])
         ELSE <<>>
    ELSE <<>>

\* faulty variant: the status test compares the prices again
ListingChanges_StatusOnPrice(tcols, current_row, new_result) ==
    (IF current_row.price # new_result.price
     THEN <<PriceLine(current_row.price, new_result.price)>> ELSE <<>>)
    \o (IF current_row.price # new_result.price
        THEN <<StatusLine(current_row.status, new_result.status)>> ELSE <<>>)
    \o StockChanges(tcols, current_row, new_result)

ListingChanges(tcols, current_row, new_result) ==
    (IF current_row.price # new_result.price
     THEN <<PriceLine(current_row.price, new_result.price)>> ELSE <<>>)
    \o (IF current_row.status # new_result.status
        THEN <<StatusLine(current_row.status, new_result.status)>> ELSE <<>>)
    \o StockChanges(tcols, current_row, new_result)

\* the row an INSERT / UPDATE of all keys of the record leaves in the table
RowOf(tcols, r) ==
    [price |-> r.price, status |-> r.status,
     stock |-> IF "stock" \in tcols /\ r.stock # NoKey THEN r.stock ELSE NULL]

\* sqlite rejects a statement naming a column the table does not have
StatementOk(tcols, r) == RecordKeys(r) \subseteq tcols

Note(kind, r, changes, i) ==
    [kind |-> kind, url |-> r.url, changes |-> changes, idx |-> i]

\* a statement executed on the connection; sentBefore: the sends made before it
Write(op, u, i, t) == [op |-> op, url |-> u, idx |-> i, sentBefore |-> Len(t.sent)]

\* faulty variant: the update and the send are not guarded by `if changes`
handle_existing_listing_NoGuard(tcols, t, current_row, new_result, i) ==
    LET changes == ListingChanges(tcols, current_row, new_result) IN
    IF ~StatementOk(tcols, new_result) THEN t
    ELSE [db |-> [t.db EXCEPT ![new_result.url] =
                     [price |-> new_result.price, status |-> new_result.status,
                      stock |-> IF new_result.stock # NoKey THEN new_result.stock
                                ELSE @.stock]],
          sent |-> Append(t.sent, Note("Listing Updated", new_result, changes, i)),
          writes |-> Append(t.writes, Write("UPDATE", new_result.url, i, t))]

\* faulty variant: the UPDATE sets the price alone
handle_existing_listing_PriceOnly(tcols, t, current_row, new_result, i) ==
    LET changes == ListingChanges(tcols, current_row, new_result) IN
    IF changes = <<>> THEN t
    ELSE IF ~StatementOk(tcols, new_result) THEN t
    ELSE [db |-> [t.db EXCEPT ![new_result.url].price = new_result.price],
          sent |-> Append(t.sent, Note("Listing Updated", new_result, changes, i)),
          writes |-> Append(t.writes, Write("UPDATE", new_result.url, i, t))]

\* t = [db, sent, writes]: the open transaction and the calls made so far
handle_existing_listing(tcols, t, current_row, new_result, i) ==
    LET changes == ListingChanges(tcols, current_row, new_result) IN
    IF changes = <<>> THEN t
    ELSE IF ~StatementOk(tcols, new_result) THEN t   \* UPDATE raises, caught by caller
    ELSE [db |-> [t.db EXCEPT ![new_result.url] =
                     [price |-> new_result.price, status |-> new_result.status,
                      stock |-> IF new_result.stock # NoKey THEN new_result.stock
                                ELSE @.stock]],
          sent |-> Append(t.sent, Note("Listing Updated", new_result, changes, i)),
          writes |-> Append(t.writes, Write("UPDATE", new_result.url, i, t))]

(***************************************************************************)
(* handle_new_listing                                                      *)
(***************************************************************************)
\* faulty variant: the notification is sent before the INSERT is executed
handle_new_listing_SendFirst(tcols, t, result, i) ==
    IF ~StatementOk(tcols, result) THEN t
    ELSE LET t1 == [t EXCEPT !.sent = Append(t.sent, Note("New Listing", result, <<>>, i))]
         IN  [db |-> [t.db EXCEPT ![result.url] = RowOf(tcols, result)],
              sent |-> t1.sent,
              writes |-> Append(t.writes, Write("INSERT", result.url, i, t1))]

handle_new_listing(tcols, t, result, i) ==
    IF ~StatementOk(tcols, result) THEN t            \* INSERT raises, caught by caller
    ELSE [db |-> [t.db EXCEPT ![result.url] = RowOf(tcols, result)],
          sent |-> Append(t.sent, Note("New Listing", result, <<>>, i)),
          writes |-> Append(t.writes, Write("INSERT", result.url, i, t))]

(***************************************************************************)
(* process_single_result                                                   *)
(***************************************************************************)
process_single_result(tcols, t, result, i) ==
    LET row == t.db[result.url] IN
    IF row = NoRow
    THEN handle_new_listing(tcols, t, result, i)
    ELSE handle_existing_listing(tcols, t, row, result, i)

\* for result in results: await self.process_single_result(conn, result)
RECURSIVE ProcessLoop(_, _, _, _)
ProcessLoop(tcols, t, rs, i) ==
    IF i > Len(rs) THEN t
    ELSE ProcessLoop(tcols, process_single_result(tcols, t, rs[i], i), rs, i + 1)

(***************************************************************************)
(* handle_missing_products                                                 *)
(***************************************************************************)
\* faulty variant: the status is tested without lower()
IsTerminal_CaseSensitive(status) ==
    Contains(SOLD_OUT, status) \/ Contains(INACTIVE, status)

IsTerminal(status) ==
    LET current_status == Lower(status) IN
    Contains(SOLD_OUT, current_status) \/ Contains(INACTIVE, current_status)

handle_missing_one(t, url) ==
    LET row == t.db[url] IN
    IF row = NoRow THEN t
    ELSE IF IsTerminal(row.status) THEN t
    ELSE [db |-> [t.db EXCEPT ![url].status = SOLD_OUT],
          sent |-> Append(t.sent,
                     [kind |-> "Product Removed", url |-> url,
                      changes |-> <<>>, idx |-> 0]),
          writes |-> Append(t.writes, Write("UPDATE status", url, 0, t))]

\* for url in missing_urls (order: a sequence enumerating the set)
RECURSIVE handle_missing_products(_, _, _)
handle_missing_products(t, order, k) ==
    IF k > Len(order) THEN t
    ELSE handle_missing_products(handle_missing_one(t, order[k]), order, k + 1)

Orders(S) == { o \in [1..Cardinality(S) -> S] : \A u \in S : \E k \in DOMAIN o : o[k] = u }

(***************************************************************************)
(* process_results                                                         *)
(***************************************************************************)
current_urls(rs) == { rs[i].url : i \in DOMAIN rs }

db_urls(d) == { u \in URLs : d[u] # NoRow }

\* faulty variant: the set difference taken the other way round
missing_urls_Reversed(d, rs) == current_urls(rs) \ db_urls(d)

missing_urls(d, rs) == db_urls(d) \ current_urls(rs)

\* faulty variant: an empty list is processed like any other
process_results_NoEmptyCheck(tcols, d, rs, order) ==
    LET t0 == [db |-> d, sent |-> <<>>, writes |-> <<>>]
        t1 == ProcessLoop(tcols, t0, rs, 1)
    IN  handle_missing_products(t1, order, 1)

process_results(tcols, d, rs, order) ==
    IF rs = <<>> THEN [db |-> d, sent |-> <<>>, writes |-> <<>>]
    ELSE LET t0 == [db |-> d, sent |-> <<>>, writes |-> <<>>]
             t1 == ProcessLoop(tcols, t0, rs, 1)
         IN  handle_missing_products(t1, order, 1)

CountRemoved(notes, u) ==
    Cardinality({ k \in DOMAIN notes : notes[k].kind = "Product Removed" /\ notes[k].url = u })

(***************************************************************************)
(* BaseScraper.run                                                         *)
(***************************************************************************)
\* process_results called n times in a row on the same list
ReconTimes(tcols, d, rs, order, n) ==
    LET t0 == [db |-> d, sent |-> <<>>, writes |-> <<>>]
        t1 == process_results(tcols, d, rs, order)
        t2 == process_results(tcols, t1.db, rs, order)
    IN  IF n = 0 THEN t0
        ELSE IF n = 1 THEN t1
        ELSE [db |-> t2.db, sent |-> t1.sent \o t2.sent, writes |-> t1.writes \o t2.writes]

\* a run of the source that calls process_results n times
RunRecon(rs, n) ==
    /\ \E order \in Orders(missing_urls(db, rs)) :
         LET t == ReconTimes(cols, db, rs, order, n) IN
         /\ db' = t.db
         /\ sent' = t.sent
         /\ writes' = t.writes
         /\ sendOk' = [k \in DOMAIN t.sent |-> TRUE]
         /\ removedSinceSeen' =
              [u \in URLs |->
                 IF u \in current_urls(rs) THEN 0
                 ELSE removedSinceSeen[u] + CountRemoved(t.sent, u)]
    /\ results' = rs
    /\ item_faults' = [i \in DOMAIN rs |-> "none"]
    /\ missing_faults' = {}
    /\ dbBefore' = db
    /\ pc' = "done"
    /\ UNCHANGED <<source, cols, absentRuns>>

\* if neither flag is set: await self.process_results(results)
RunBody(rs) == RunRecon(rs, 1)

RunWith(rs) ==
    /\ RunBody(rs)
    /\ UNCHANGED <<batchVars, mainVars, urlVars, storeVars, histVars>>

Run ==
    /\ pc = "idle"
    /\ \E rs \in BoundedSeq(Records(source), MaxBatch) : RunWith(rs)

ReturnBody ==
    /\ pc = "done"
    /\ pc' = "idle"
    /\ results' = <<>>
    /\ dbBefore' = db
    /\ sent' = <<>>
    /\ writes' = <<>>
    /\ item_faults' = <<>>
    /\ missing_faults' = {}
    /\ sendOk' = <<>>
    /\ absentRuns' = [u \in URLs |-> IF db[u] = NoRow THEN 0 ELSE absentRuns[u]]
    /\ UNCHANGED <<source, cols, db, removedSinceSeen>>

Return ==
    /\ ReturnBody
    /\ UNCHANGED <<batchVars, mainVars, urlVars, storeVars, histVars>>

\* no run in progress, every table empty
ReconIdle ==
    /\ db = [u \in URLs |-> NoRow]
    /\ pc = "idle"
    /\ results = <<>>
    /\ dbBefore = db
    /\ sent = <<>>
    /\ writes = <<>>
    /\ removedSinceSeen = [u \in URLs |-> 0]
    /\ item_faults = <<>>
    /\ missing_faults = {}
    /\ sendOk = <<>>
    /\ absentRuns = [u \in URLs |-> 0]

\* no call of normalize_product_url in progress
UrlIdle ==
    /\ url_in = <<>>
    /\ handle_out = <<>>

\* process_results_with_store_updates not entered
StoreIdle ==
    /\ cfg = [upload |-> FALSE, sync |-> FALSE, brand |-> FALSE]
    /\ storeCalls = <<>>
    /\ reconCalls = 0
    /\ storeBefore = <<>>

\* no titles and no earlier observation recorded
HistIdle ==
    /\ scraped_titles = <<>>
    /\ returned_titles = <<>>
    /\ prevStock = <<>>

\* main() not started
MainIdle ==
    /\ mstep = 1
    /\ inflight = {}
    /\ mainLog = <<>>
    /\ mainRaised = FALSE
    /\ fetchFailed = {}

\* no aggregation pass in progress
BatchIdle ==
    /\ bpc = "idle"
    /\ all_scraped_products = <<>>
    /\ authOk = TRUE
    /\ fetchOk = TRUE
    /\ existing_products = <<>>
    /\ authCalls = 0
    /\ fetchCalls = 0
    /\ updateCalls = <<>>

Init ==
    /\ source \in Sources
    /\ cols \in IF source = "disney_results" THEN {DisneySchema, StockSchema}
                ELSE {BaseCols}
    /\ ReconIdle
    /\ extStore = <<>>
    /\ BatchIdle
    /\ MainIdle
    /\ UrlIdle
    /\ StoreIdle
    /\ HistIdle

Next == Run \/ Return

Spec == Init /\ [][Next]_vars

(***************************************************************************)
(* The stock-tracked source alone, one listing, every stock level from 0   *)
(* to MaxStock: the inputs of the threshold check of                       *)
(* handle_existing_listing.                                                *)
(***************************************************************************)
RunStock ==
    /\ pc = "idle"
    /\ \E r \in DisneyRecordsOver({"u1"}, 0..MaxStock) : RunWith(<<r>>)

InitStock == Init /\ source = "disney_results" /\ cols = StockSchema

NextStock == RunStock \/ Return

SpecStock == InitStock /\ [][NextStock]_vars

(***************************************************************************)
(* common/store_api.py: normalize_product_url.  A URL is the sequence of   *)
(* its tokens: scheme, "/", "/", host, then segments and the separators    *)
(* "/", "?", "#".                                                          *)
(***************************************************************************)
RECURSIVE PathEnd(_, _)
PathEnd(url, i) ==
    IF i > Len(url) \/ url[i] \in {"?", "#"} THEN i - 1 ELSE PathEnd(url, i + 1)

\* urlparse(url).path
UrlPath(url) == IF Len(url) < 5 THEN <<>> ELSE SubSeq(url, 5, PathEnd(url, 5))

\* path.rstrip('/')
RECURSIVE RStripSlash(_)
RStripSlash(path) ==
    IF path # <<>> /\ path[Len(path)] = "/"
    THEN RStripSlash(SubSeq(path, 1, Len(path) - 1))
    ELSE path

\* .split('/')[-1]
LastSegment(path) == IF path = <<>> \/ path[Len(path)] = "/" THEN "" ELSE path[Len(path)]

\* faulty variant: the trailing slashes are not stripped
normalize_product_url_NoRStrip(url) == LastSegment(UrlPath(url))

normalize_product_url(url) == LastSegment(RStripSlash(UrlPath(url)))

(***************************************************************************)
(* Inputs of the aggregation pass                                          *)
(***************************************************************************)
Url_h1 == <<"https:", "/", "/", "ohora.co.jp", "/", "products", "/", "h1">>

Url_h1_query ==
    <<"https:", "/", "/", "7na.jp", "/", "collections", "/", "x", "/",
      "products", "/", "h1", "?", "q=1">>

Url_h2_slash == <<"https:", "/", "/", "ohora.co.jp", "/", "products", "/", "h2", "/">>

\* product.get('url') of a record without a url
NoUrl == <<>>

IN_STOCK_CAPS == <<"I","n"," ","S","t","o","c","k">>

ScrapedProducts ==
    { [url |-> Url_h1, status |-> IN_STOCK, title |-> "Set 1"],
      [url |-> Url_h1_query, status |-> IN_STOCK_CAPS, title |-> "Set 1 (7nana)"],
      [url |-> Url_h1_query, status |-> SOLD_OUT, title |-> "Set 1 (7nana)"],
      [url |-> Url_h2_slash, status |-> SOLD_OUT, title |-> "Set 2"],
      [url |-> NoUrl, status |-> IN_STOCK, title |-> "No url"] }

\* keys of all_scraped_products, in the order main() inserts them
ScraperNames == <<"ohora_disney_jp", "ohora_jp">>

MaxProducts == 1

AllScraped ==
    { [k \in DOMAIN ScraperNames |-> [name |-> ScraperNames[k], products |-> f[k]]] :
        f \in [DOMAIN ScraperNames -> BoundedSeq(ScrapedProducts, MaxProducts)] }

ExtUrl_h1 ==
    <<"https:", "/", "/", "ohora.co.jp", "/", "collections", "/", "all", "/",
      "products", "/", "h1">>

ExtUrl_h2 == <<"https:", "/", "/", "ohora.co.jp", "/", "products", "/", "h2">>

ExtUrl_h1_other == <<"https:", "/", "/", "shop.jp", "/", "goods", "/", "h1">>

\* order in which the products-status endpoint lists the products
ExtOrder == <<ExtUrl_h1, ExtUrl_h2, ExtUrl_h1_other>>

ExtPosition(url) == CHOOSE k \in DOMAIN ExtOrder : ExtOrder[k] = url

ExtProducts ==
    [product_url : { ExtOrder[k] : k \in DOMAIN ExtOrder }, is_active : {0, 1}]

ExtStores ==
    { st \in BoundedSeq(ExtProducts, Len(ExtOrder)) :
        \A i, j \in DOMAIN st :
          i < j => ExtPosition(st[i].product_url) < ExtPosition(st[j].product_url) }

(***************************************************************************)
(* Python dict as the sequence of its items in insertion order             *)
(***************************************************************************)
DictHas(d, k) == \E i \in DOMAIN d : d[i].key = k

DictGet(d, k) == d[CHOOSE i \in DOMAIN d : d[i].key = k].val

DictPut(d, k, v) ==
    IF DictHas(d, k)
    THEN [i \in DOMAIN d |-> IF d[i].key = k THEN [key |-> k, val |-> v] ELSE d[i]]
    ELSE Append(d, [key |-> k, val |-> v])

DictKeys(d) == { d[i].key : i \in DOMAIN d }

(***************************************************************************)
(* common/store_api.py: the three requests                                 *)
(***************************************************************************)
None == <<>>

\* get_admin_token: the token, or None on any failure
get_admin_token(ok) == IF ok THEN <<"accessToken">> ELSE None

\* faulty variant: a failed request falls back to the products of an earlier response
get_existing_products_status_Stale(ok, store) == store

\* get_existing_products_status: the listed products, or {} on any failure
get_existing_products_status(ok, store) == IF ok THEN store ELSE <<>>

\* the store's effect of one accepted POST /api/scrape/update-statuses
RECURSIVE ApplyUpdates(_, _, _)
ApplyUpdates(store, productsToUpdate, j) ==
    IF j > Len(productsToUpdate) THEN store
    ELSE ApplyUpdates(
           [i \in DOMAIN store |->
              IF store[i].product_url = productsToUpdate[j].product_url
              THEN [store[i] EXCEPT !.is_active = productsToUpdate[j].is_active]
              ELSE store[i]],
           productsToUpdate, j + 1)

(***************************************************************************)
(* common/batch_store_update.py: batch_update_store                        *)
(***************************************************************************)
\* existing_by_handle = {normalize_product_url(url): data for url, data in ...}
RECURSIVE ExistingByHandle(_, _, _)
ExistingByHandle(products, i, d) ==
    IF i > Len(products) THEN d
    ELSE ExistingByHandle(products, i + 1,
           DictPut(d, normalize_product_url(products[i].product_url), products[i]))

\* faulty variant: the first listing of a handle is kept
RECURSIVE DedupProducts_FirstWins(_, _, _)
DedupProducts_FirstWins(products, i, d) ==
    IF i > Len(products) THEN d
    ELSE DedupProducts_FirstWins(products, i + 1,
           IF products[i].url = NoUrl \/ DictHas(d, normalize_product_url(products[i].url))
           THEN d
           ELSE DictPut(d, normalize_product_url(products[i].url), products[i]))

\* for product in products: skip without url, else unique[handle] = product
RECURSIVE DedupProducts(_, _, _)
DedupProducts(products, i, d) ==
    IF i > Len(products) THEN d
    ELSE DedupProducts(products, i + 1,
           IF products[i].url = NoUrl THEN d
           ELSE DictPut(d, normalize_product_url(products[i].url), products[i]))

\* for scraper_name, products in all_scraped_products.items()
RECURSIVE UniqueScrapedProducts(_, _, _)
UniqueScrapedProducts(all, k, d) ==
    IF k > Len(all) THEN d
    ELSE UniqueScrapedProducts(all, k + 1, DedupProducts(all[k].products, 1, d))

\* faulty variant: the status is tested without lower()
ScrapedIsActive_CaseSensitive(product) == Contains(IN_STOCK, product.status)

ScrapedIsActive(product) == Contains(IN_STOCK, Lower(product.status))

\* bool(existing_by_handle[handle].get('is_active', False))
ExistingIsActive(data) == data.is_active # 0

\* faulty variant: a queued change always activates the product
RECURSIVE ProductsToUpdate_AlwaysActive(_, _, _, _)
ProductsToUpdate_AlwaysActive(unique, existing_by_handle, i, queue) ==
    IF i > Len(unique) THEN queue
    ELSE LET handle == unique[i].key
             product == unique[i].val
         IN  ProductsToUpdate_AlwaysActive(unique, existing_by_handle, i + 1,
               IF /\ DictHas(existing_by_handle, handle)
                  /\ ScrapedIsActive(product)
                       # ExistingIsActive(DictGet(existing_by_handle, handle))
               THEN Append(queue,
                      [product_url |-> DictGet(existing_by_handle, handle).product_url,
                       is_active |-> 1,
                       name |-> <<product.title>>])
               ELSE queue)

\* for handle, product in unique_scraped_products.items(): queue a change
RECURSIVE ProductsToUpdate(_, _, _, _)
ProductsToUpdate(unique, existing_by_handle, i, queue) ==
    IF i > Len(unique) THEN queue
    ELSE LET handle == unique[i].key
             product == unique[i].val
         IN  ProductsToUpdate(unique, existing_by_handle, i + 1,
               IF /\ DictHas(existing_by_handle, handle)
                  /\ ScrapedIsActive(product)
                       # ExistingIsActive(DictGet(existing_by_handle, handle))
               THEN Append(queue,
                      [product_url |-> DictGet(existing_by_handle, handle).product_url,
                       is_active |-> IF ScrapedIsActive(product) THEN 1 ELSE 0,
                       name |-> <<product.title>>])
               ELSE queue)

MissingHandles(existing_by_handle, unique) ==
    DictKeys(existing_by_handle) \ DictKeys(unique)

\* faulty variant: every missing product is queued, active or not
RECURSIVE MissingProductsToUpdate_NoActiveCheck(_, _, _, _)
MissingProductsToUpdate_NoActiveCheck(order, existing_by_handle, i, queue) ==
    IF i > Len(order) THEN queue
    ELSE LET product_data == DictGet(existing_by_handle, order[i]) IN
         MissingProductsToUpdate_NoActiveCheck(order, existing_by_handle, i + 1,
           Append(queue,
                  [product_url |-> product_data.product_url,
                   is_active |-> 0,
                   name |-> <<"(Removed) ", order[i]>>]))

\* for handle in missing_handles (order: a sequence enumerating the set)
RECURSIVE MissingProductsToUpdate(_, _, _, _)
MissingProductsToUpdate(order, existing_by_handle, i, queue) ==
    IF i > Len(order) THEN queue
    ELSE LET product_data == DictGet(existing_by_handle, order[i]) IN
         MissingProductsToUpdate(order, existing_by_handle, i + 1,
           IF product_data.is_active # 0
           THEN Append(queue,
                  [product_url |-> product_data.product_url,
                   is_active |-> 0,
                   name |-> <<"(Removed) ", order[i]>>])
           ELSE queue)

Call(list, payload) == [list |-> list, productsToUpdate |-> payload]

\* batch_update_store after the token check: the snapshot request and the
\* update calls, given the iteration order of missing_handles
BatchWithToken(all, fOk, store, order) ==
    LET existing == get_existing_products_status(fOk, store)
        existing_by_handle == ExistingByHandle(existing, 1, <<>>)
        unique == UniqueScrapedProducts(all, 1, <<>>)
        products_to_update == ProductsToUpdate(unique, existing_by_handle, 1, <<>>)
        missing_handles == MissingHandles(existing_by_handle, unique)
        missing_products_to_update ==
            MissingProductsToUpdate(order, existing_by_handle, 1, <<>>)
    IN  [authCalls |-> 1, fetchCalls |-> 1, existing_products |-> existing,
         updateCalls |->
           (IF products_to_update # <<>>
            THEN <<Call("products_to_update", products_to_update)>> ELSE <<>>)
           \o (IF missing_handles # {} /\ missing_products_to_update # <<>>
               THEN <<Call("missing_products_to_update", missing_products_to_update)>>
               ELSE <<>>)]

\* faulty variant: the pass goes on without a token
batch_update_store_NoTokenCheck(all, aOk, fOk, store, order) ==
    BatchWithToken(all, fOk, store, order)

\* the requests batch_update_store makes, given the outcome of the login and
\* of the snapshot request
batch_update_store(all, aOk, fOk, store, order) ==
    IF get_admin_token(aOk) = None
    THEN [authCalls |-> 1, fetchCalls |-> 0, existing_products |-> <<>>,
          updateCalls |-> <<>>]
    ELSE BatchWithToken(all, fOk, store, order)

\* the set the loop over missing_handles iterates
MissingOfPass(all, aOk, fOk, store) ==
    IF get_admin_token(aOk) = None THEN {}
    ELSE MissingHandles(
           ExistingByHandle(get_existing_products_status(fOk, store), 1, <<>>),
           UniqueScrapedProducts(all, 1, <<>>))

\* every accepted call takes effect in the store, in call order
RECURSIVE StoreAfter(_, _, _, _)
StoreAfter(store, calls, accepted, k) ==
    IF k > Len(calls) THEN store
    ELSE StoreAfter(
           IF accepted[k] THEN ApplyUpdates(store, calls[k].productsToUpdate, 1) ELSE store,
           calls, accepted, k + 1)

\* one pass over the listings `all`, given the outcome of the login and of
\* the snapshot request
BatchPass(all, aOk, fOk) ==
    /\ \E order \in Orders(MissingOfPass(all, aOk, fOk, extStore)) :
         LET out == batch_update_store(all, aOk, fOk, extStore, order) IN
         /\ all_scraped_products' = all
         /\ authOk' = aOk
         /\ fetchOk' = fOk
         /\ existing_products' = out.existing_products
         /\ authCalls' = out.authCalls
         /\ fetchCalls' = out.fetchCalls
         /\ \E accepted \in [1..2 -> BOOLEAN] :
              /\ \A k \in 1..2 : k > Len(out.updateCalls) => accepted[k]
              /\ updateCalls' =
                   [k \in DOMAIN out.updateCalls |->
                      [list |-> out.updateCalls[k].list,
                       productsToUpdate |-> out.updateCalls[k].productsToUpdate,
                       accepted |-> accepted[k]]]
              /\ extStore' = StoreAfter(extStore, out.updateCalls, accepted, 1)
    /\ bpc' = "done"
    /\ UNCHANGED <<reconVars, mainVars, urlVars, storeVars, histVars>>

BatchUpdateStore ==
    /\ bpc = "idle"
    /\ \E all \in AllScraped, aOk \in BOOLEAN, fOk \in BOOLEAN :
         \* without a token the snapshot request is never made
         /\ ~aOk => fOk
         /\ BatchPass(all, aOk, fOk)

BatchReturn ==
    /\ bpc = "done"
    /\ bpc' = "idle"
    /\ all_scraped_products' = <<>>
    /\ authOk' = TRUE
    /\ fetchOk' = TRUE
    /\ existing_products' = <<>>
    /\ authCalls' = 0
    /\ fetchCalls' = 0
    /\ updateCalls' = <<>>
    /\ UNCHANGED extStore
    /\ UNCHANGED <<reconVars, mainVars, urlVars, storeVars, histVars>>

InitBatch ==
    /\ source = "generic_results"
    /\ cols = BaseCols
    /\ ReconIdle
    /\ extStore \in ExtStores
    /\ BatchIdle
    /\ MainIdle
    /\ UrlIdle
    /\ StoreIdle
    /\ HistIdle

NextBatch == BatchUpdateStore \/ BatchReturn

SpecBatch == InitBatch /\ [][NextBatch]_vars

(***************************************************************************)
(* Passes whose sources list the same product more than once               *)
(***************************************************************************)
\* listings of the first source
MaxRepeats == 2

\* three listings of handle h1 that differ in url, status or title
RepeatedProducts ==
    { [url |-> Url_h1, status |-> IN_STOCK, title |-> "Set 1"],
      [url |-> Url_h1_query, status |-> IN_STOCK_CAPS, title |-> "Set 1 (7nana)"],
      [url |-> Url_h1_query, status |-> SOLD_OUT, title |-> "Set 1 (sold)"] }

\* the first source lists up to MaxRepeats products, the second at most one
AllRepeated ==
    { <<[name |-> ScraperNames[1], products |-> p1],
        [name |-> ScraperNames[2], products |-> p2]>> :
        p1 \in BoundedSeq(RepeatedProducts, MaxRepeats),
        p2 \in BoundedSeq(RepeatedProducts, 1) }

BatchUpdateRepeated ==
    /\ bpc = "idle"
    /\ \E all \in AllRepeated : BatchPass(all, TRUE, TRUE)

NextRepeated == BatchUpdateRepeated \/ BatchReturn

SpecRepeated == InitBatch /\ [][NextRepeated]_vars

(***************************************************************************)
(* Failures met while one run reconciles its batch.  A listing of the      *)
(* batch is handled under one of                                           *)
(*   "none"      nothing fails                                             *)
(*   "no_url"    the scraped dict has no 'url' key                         *)
(*   "no_price"  the scraped dict has no 'price' key                       *)
(*   "db_error"  the first statement executed for it raises sqlite3.Error  *)
(* and every send may be refused by Discord.                               *)
(***************************************************************************)
FaultKinds == {"none", "no_url", "no_price", "db_error"}

\* str() of a NULL price column
PriceNone == "None"

FaultRecords ==
    [url : URLs, price : {"1000"}, status : {IN_STOCK, SoldOutCaps}, stock : {NoKey}]

\* process_single_result with the try / except Exception around its body
process_single_result_faulty(tcols, t, result, fault, i) ==
    IF fault = "db_error" THEN t                  \* caught at the except clause
    ELSE IF fault = "no_price"
         THEN IF t.db[result.url] = NoRow
              \* INSERT over the keys the dict has; create_embed reads with .get
              THEN [db |-> [t.db EXCEPT ![result.url] =
                              [price |-> PriceNone, status |-> result.status,
                               stock |-> NULL]],
                    sent |-> Append(t.sent, Note("New Listing", result, <<>>, i)),
                    writes |-> Append(t.writes, Write("INSERT", result.url, i, t))]
              \* new_result['price'] raises KeyError, caught at the except clause
              ELSE t
         ELSE process_single_result(tcols, t, result, i)

RECURSIVE ProcessLoopFaulty(_, _, _, _, _)
ProcessLoopFaulty(tcols, t, rs, fs, i) ==
    IF i > Len(rs) THEN t
    ELSE ProcessLoopFaulty(tcols,
           process_single_result_faulty(tcols, t, rs[i], fs[i], i), rs, fs, i + 1)

\* handle_missing_products with the try / except Exception inside its loop
RECURSIVE handle_missing_products_faulty(_, _, _, _)
handle_missing_products_faulty(t, order, mf, k) ==
    IF k > Len(order) THEN t
    ELSE handle_missing_products_faulty(
           IF order[k] \in mf THEN t ELSE handle_missing_one(t, order[k]),
           order, mf, k + 1)

\* process_results: the set comprehension over result['url'] is evaluated
\* inside the outer try only, so a dict without 'url' raises KeyError there,
\* the except clause logs it, and the connection is closed without commit
process_results_faulty(tcols, d, rs, fs, order, mf) ==
    IF rs = <<>> THEN [db |-> d, sent |-> <<>>, writes |-> <<>>]
    ELSE IF \E i \in DOMAIN rs : fs[i] = "no_url"
         THEN [db |-> d, sent |-> <<>>, writes |-> <<>>]
         ELSE LET t0 == [db |-> d, sent |-> <<>>, writes |-> <<>>]
                  t1 == ProcessLoopFaulty(tcols, t0, rs, fs, 1)
              IN  handle_missing_products_faulty(t1, order, mf, 1)

\* at most one listing of the batch fails
FaultPlans(rs) ==
    { fs \in [DOMAIN rs -> FaultKinds] :
        Cardinality({ i \in DOMAIN rs : fs[i] # "none" }) <= 1 }

RunFaulty ==
    /\ pc = "idle"
    /\ \E rs \in BoundedSeq(FaultRecords, MaxBatch) :
         \E fs \in FaultPlans(rs), mf \in SUBSET missing_urls(db, rs) :
           \E order \in Orders(missing_urls(db, rs)) :
             LET t == process_results_faulty(cols, db, rs, fs, order, mf) IN
             /\ db' = t.db
             /\ sent' = t.sent
             /\ writes' = t.writes
             /\ sendOk' \in [DOMAIN t.sent -> BOOLEAN]
             /\ removedSinceSeen' =
                  [u \in URLs |->
                     IF u \in current_urls(rs) THEN 0
                     ELSE removedSinceSeen[u] + CountRemoved(t.sent, u)]
             /\ results' = rs
             /\ item_faults' = fs
             /\ missing_faults' = mf
    /\ dbBefore' = db
    /\ pc' = "done"
    /\ UNCHANGED <<source, cols, absentRuns>>
    /\ UNCHANGED <<batchVars, mainVars, urlVars, storeVars, histVars>>

InitFaulty == Init /\ source = "generic_results"

NextFaulty == RunFaulty \/ Return

SpecFaulty == InitFaulty /\ [][NextFaulty]_vars

(***************************************************************************)
(* The script-style sources: scrapers/poshmark_scraper.py and              *)
(* scrapers/archive/ebay_scraper.py (failed_parse counter) and             *)
(* scrapers/mercari_scraper.py (no counter).  A connection is              *)
(*   c = [work, committed, trail]                                          *)
(* work: the table as the connection sees it; committed: the persisted     *)
(* table; trail: the persisted tables in the order the commits made them.  *)
(***************************************************************************)
RetireSources == {"poshmark_results", "ebay_results", "mercari_results"}

\* CREATE TABLE ... failed_parse INTEGER DEFAULT 0 (absent from mercari_results)
HasCounter(src) == src # "mercari_results"

RetireCols(src) ==
    IF HasCounter(src) THEN {"url", "title", "price", "photo", "failed_parse"}
    ELSE {"url", "title", "price", "image"}

RetireRecords == [url : URLs, price : {"1000"}]

\* number of search phrases of one pass
MaxPhrases == 2

\* number of listings all phrases of one pass return together
MaxPassResults == 3

RECURSIVE ResultCount(_, _)
ResultCount(phrases, k) ==
    IF k = 0 THEN 0 ELSE Len(phrases[k]) + ResultCount(phrases, k - 1)

\* the result lists of the phrases of one pass
Phrases ==
    { phrases \in [1..MaxPhrases -> BoundedSeq(RetireRecords, MaxPassResults)] :
        ResultCount(phrases, MaxPhrases) <= MaxPassResults }

Connect(d) == [work |-> d, committed |-> d, trail |-> <<d>>]

\* conn.commit()
Commit(c) ==
    [work |-> c.work, committed |-> c.work,
     trail |-> IF c.work = c.committed THEN c.trail ELSE Append(c.trail, c.work)]

\* faulty variant: the counter of a re-observed row is left as it is
reset_failed_parse_Kept(c, url) == Commit(c)

\* UPDATE ... SET failed_parse = 0 WHERE url=?, then conn.commit()
reset_failed_parse(c, url) ==
    Commit([c EXCEPT !.work =
              IF c.work[url] = NoRow THEN c.work
              ELSE [c.work EXCEPT ![url].failed_parse = <<0>>]])

\* faulty variant: the counter is raised by two
increment_failed_parse_Twice(c, url) ==
    Commit([c EXCEPT !.work =
              IF c.work[url] = NoRow THEN c.work
              ELSE [c.work EXCEPT ![url].failed_parse = <<@[1] + 2>>]])

\* UPDATE ... SET failed_parse = failed_parse + 1 WHERE url=?, then commit
increment_failed_parse(c, url) ==
    Commit([c EXCEPT !.work =
              IF c.work[url] = NoRow THEN c.work
              ELSE [c.work EXCEPT ![url].failed_parse = <<@[1] + 1>>]])

failed_parse_limit == 10

\* DELETE FROM ... WHERE failed_parse >= 10, then commit
remove_failed_listings(c) ==
    Commit([c EXCEPT !.work =
              [u \in URLs |->
                 IF c.work[u] # NoRow /\ c.work[u].failed_parse[1] >= failed_parse_limit
                 THEN NoRow ELSE c.work[u]]])

\* for result in results: reset_failed_parse(...); if url in urls_to_insert: INSERT
RECURSIVE InsertLoop(_, _, _, _)
InsertLoop(c, rs, urls_to_insert, i) ==
    IF i > Len(rs) THEN c
    ELSE LET c1 == reset_failed_parse(c, rs[i].url)
             c2 == IF rs[i].url \in urls_to_insert /\ c1.work[rs[i].url] = NoRow
                   THEN [c1 EXCEPT !.work[rs[i].url] =
                           [price |-> rs[i].price, failed_parse |-> <<0>>]]
                   ELSE c1      \* not new, or IntegrityError caught
         IN  InsertLoop(c2, rs, urls_to_insert, i + 1)

\* scrape_search(phrase) after the pages are fetched; `with conn:` commits
scrape_search(c, rs) ==
    Commit(InsertLoop(c, rs, current_urls(rs) \ db_urls(c.committed), 1))

RECURSIVE PhraseLoop(_, _, _)
PhraseLoop(c, phrases, k) ==
    IF k > Len(phrases) THEN c
    ELSE PhraseLoop(scrape_search(c, phrases[k]), phrases, k + 1)

RECURSIVE IncrementLoop(_, _, _)
IncrementLoop(c, order, k) ==
    IF k > Len(order) THEN c
    ELSE IncrementLoop(increment_failed_parse(c, order[k]), order, k + 1)

ObservedUrls(phrases) == UNION { current_urls(phrases[k]) : k \in DOMAIN phrases }

\* old_urls of __main__, computed after every phrase was scraped
old_urls(d, phrases) == db_urls(PhraseLoop(Connect(d), phrases, 1).committed)
                          \ ObservedUrls(phrases)

\* __main__ of poshmark_scraper.py / ebay_scraper.py
CounterPass(d, phrases, order) ==
    remove_failed_listings(
      IncrementLoop(PhraseLoop(Connect(d), phrases, 1), order, 1))

\* mercari_scraper.main: INSERT the unseen, DELETE the unobserved, one commit
MercariPass(d, phrases) ==
    Commit([Connect(d) EXCEPT !.work =
              [u \in URLs |->
                 IF u \in ObservedUrls(phrases)
                 THEN IF d[u] # NoRow THEN d[u]
                      ELSE [price |-> "1000", failed_parse |-> NoKey]
                 ELSE NoRow]])

RetirePass(src, d, phrases, order) ==
    IF HasCounter(src) THEN CounterPass(d, phrases, order) ELSE MercariPass(d, phrases)

RetireOrders(src, d, phrases) ==
    IF HasCounter(src) THEN Orders(old_urls(d, phrases)) ELSE {<<>>}

\* one pass to its end
RetireRun ==
    /\ pc = "idle"
    /\ \E phrases \in Phrases :
         \E order \in RetireOrders(source, db, phrases) :
           /\ db' = RetirePass(source, db, phrases, order).committed
           /\ results' = phrases
           /\ absentRuns' =
                [u \in URLs |->
                   IF u \in ObservedUrls(phrases) \/ db[u] = NoRow THEN 0
                   ELSE absentRuns[u] + 1]
    /\ dbBefore' = db
    /\ pc' = "done"
    /\ UNCHANGED <<source, cols, sent, writes, removedSinceSeen,
                   item_faults, missing_faults, sendOk>>
    /\ UNCHANGED <<batchVars, mainVars, urlVars, storeVars, histVars>>

\* one pass killed at some point, at the latest just before it returns: what
\* is persisted is what the last commit before that point left
RetireInterrupted ==
    /\ pc = "idle"
    /\ \E phrases \in Phrases :
         \E order \in RetireOrders(source, db, phrases) :
           LET trail == RetirePass(source, db, phrases, order).trail IN
           /\ \E k \in DOMAIN trail :
                \* counters are kept below the limit between passes
                /\ \A u \in URLs :
                     (trail[k][u] # NoRow /\ HasCounter(source))
                       => trail[k][u].failed_parse[1] < failed_parse_limit
                /\ db' = trail[k]
           /\ results' = phrases
    \* the run of consecutive complete passes ends here
    /\ absentRuns' = [u \in URLs |-> 0]
    /\ dbBefore' = db
    /\ pc' = "interrupted"
    /\ UNCHANGED <<source, cols, sent, writes, removedSinceSeen,
                   item_faults, missing_faults, sendOk>>
    /\ UNCHANGED <<batchVars, mainVars, urlVars, storeVars, histVars>>

\* the next start of the script
RetireReturn ==
    /\ pc \in {"done", "interrupted"}
    /\ pc' = "idle"
    /\ results' = <<>>
    /\ dbBefore' = db
    /\ absentRuns' = [u \in URLs |-> IF db[u] = NoRow THEN 0 ELSE absentRuns[u]]
    /\ UNCHANGED <<source, cols, db, sent, writes, removedSinceSeen,
                   item_faults, missing_faults, sendOk>>
    /\ UNCHANGED <<batchVars, mainVars, urlVars, storeVars, histVars>>

InitRetire ==
    /\ source \in RetireSources
    /\ cols = RetireCols(source)
    /\ ReconIdle
    /\ extStore = <<>>
    /\ BatchIdle
    /\ MainIdle
    /\ UrlIdle
    /\ StoreIdle
    /\ HistIdle

\* every pass runs to its end
NextRetire == RetireRun \/ RetireReturn

\* the two sources that count failures
InitCounter == InitRetire /\ HasCounter(source)

SpecRetire == InitCounter /\ [][NextRetire]_vars

\* the source that keeps no counter
InitMercari == InitRetire /\ ~HasCounter(source)

SpecMercari == InitMercari /\ [][NextRetire]_vars

\* every pass is killed at some point
NextInterrupt == RetireInterrupted \/ RetireReturn

SpecInterrupt == InitRetire /\ [][NextInterrupt]_vars

(***************************************************************************)
(* main.py: main().  Each `await f()` is a start event and an end event;   *)
(* the statement after it runs when the awaited coroutine has ended.       *)
(***************************************************************************)
MainSteps ==
    <<"ohora_disney_jp", "ohora_jp", "ohora", "seven_nana_jp", "dashingdiva_jp",
      "cosme_jp", "esshimo_jp", "batch_update_store">>

\* scrape_search() with its own session.get loop, no try around the fetch
FunctionStyle == {"ohora_jp", "ohora"}

\* the sources whose results main() stores in all_scraped_products
Aggregated ==
    { MainSteps[k] : k \in DOMAIN MainSteps } \ {"ohora", "batch_update_store"}

\* what a source run hands back to main()
MainResults ==
    { <<>>,
      <<[url |-> Url_h1, status |-> IN_STOCK, title |-> "Set 1"]>>,
      <<[url |-> Url_h2_slash, status |-> IN_STOCK, title |-> "Set 2"]>> }

\* a class-based scrape() catches the fetch error and returns []; a
\* function-style scrape_search() lets it propagate
SourceRun(name, fetched, products) ==
    IF fetched THEN [raised |-> FALSE, results |-> products]
    ELSE IF name \in FunctionStyle THEN [raised |-> TRUE, results |-> <<>>]
    ELSE [raised |-> FALSE, results |-> <<>>]

\* faulty variant: the next coroutine is started without awaiting the last
CanStart_NoAwait == TRUE

CanStart == inflight = {}

StartStep ==
    /\ mstep <= Len(MainSteps)
    /\ ~mainRaised
    /\ CanStart
    /\ inflight' = inflight \cup {MainSteps[mstep]}
    /\ mainLog' = Append(mainLog, [ev |-> "start", name |-> MainSteps[mstep]])
    /\ mstep' = mstep + 1
    /\ UNCHANGED <<mainRaised, fetchFailed>>
    /\ UNCHANGED <<reconVars, batchVars, urlVars, storeVars, histVars>>

EndSource ==
    \E name \in inflight \ {"batch_update_store"} :
      \E fetched \in BOOLEAN, products \in MainResults :
        LET out == SourceRun(name, fetched, products) IN
        /\ ~fetched => products = <<>>
        /\ fetchFailed' = IF fetched THEN fetchFailed ELSE fetchFailed \cup {name}
        /\ mainRaised' = out.raised
        /\ inflight' = IF out.raised THEN {} ELSE inflight \ {name}
        /\ mainLog' = Append(mainLog,
                        [ev |-> IF out.raised THEN "raised" ELSE "end", name |-> name])
        \* all_scraped_products[name] = results or []
        /\ all_scraped_products' =
             IF ~out.raised /\ name \in Aggregated
             THEN Append(all_scraped_products, [name |-> name, products |-> out.results])
             ELSE all_scraped_products
        /\ UNCHANGED mstep
        /\ UNCHANGED <<extStore, bpc, authOk, fetchOk, existing_products,
                       authCalls, fetchCalls, updateCalls>>
        /\ UNCHANGED <<reconVars, urlVars, storeVars, histVars>>

EndBatch ==
    /\ "batch_update_store" \in inflight
    /\ inflight' = inflight \ {"batch_update_store"}
    /\ mainLog' = Append(mainLog, [ev |-> "end", name |-> "batch_update_store"])
    /\ UNCHANGED <<mstep, mainRaised, fetchFailed>>
    /\ UNCHANGED <<reconVars, batchVars, urlVars, storeVars, histVars>>

\* main() returned or was ended by an exception
MainEnded == mainRaised \/ (mstep > Len(MainSteps) /\ inflight = {})

\* the next scheduled start of main.py
MainExit ==
    /\ MainEnded
    /\ mstep' = 1
    /\ inflight' = {}
    /\ mainLog' = <<>>
    /\ mainRaised' = FALSE
    /\ fetchFailed' = {}
    /\ all_scraped_products' = <<>>
    /\ UNCHANGED <<extStore, bpc, authOk, fetchOk, existing_products,
                   authCalls, fetchCalls, updateCalls>>
    /\ UNCHANGED <<reconVars, urlVars, storeVars, histVars>>

NextMain == StartStep \/ EndSource \/ EndBatch \/ MainExit

InitMain == InitBatch /\ extStore = <<>>

SpecMain == InitMain /\ [][NextMain]_vars

(***************************************************************************)
(* main() with its last step carried out: batch_update_store runs on the   *)
(* mapping the source steps filled, against a store that lists products    *)
(***************************************************************************)
\* await batch_update_store(all_scraped_products)
BatchInMain ==
    /\ "batch_update_store" \in inflight
    /\ bpc = "idle"
    /\ \E aOk \in BOOLEAN, fOk \in BOOLEAN :
         /\ ~aOk => fOk
         /\ BatchPass(all_scraped_products, aOk, fOk)

EndBatchPass ==
    /\ bpc = "done"
    /\ EndBatch

\* the next scheduled start of main.py
MainExitBatch ==
    /\ MainEnded
    /\ mstep' = 1
    /\ inflight' = {}
    /\ mainLog' = <<>>
    /\ mainRaised' = FALSE
    /\ fetchFailed' = {}
    /\ bpc' = "idle"
    /\ all_scraped_products' = <<>>
    /\ authOk' = TRUE
    /\ fetchOk' = TRUE
    /\ existing_products' = <<>>
    /\ authCalls' = 0
    /\ fetchCalls' = 0
    /\ updateCalls' = <<>>
    /\ UNCHANGED extStore
    /\ UNCHANGED <<reconVars, urlVars, storeVars, histVars>>

\* the store lists the products h1 and h2, each active or not
InitMainBatch ==
    /\ InitBatch
    /\ Len(extStore) = 2
    /\ extStore[1].product_url = ExtUrl_h1
    /\ extStore[2].product_url = ExtUrl_h2

NextMainBatch == StartStep \/ EndSource \/ BatchInMain \/ EndBatchPass \/ MainExitBatch

SpecMainBatch == InitMainBatch /\ [][NextMainBatch]_vars

(***************************************************************************)
(* Calls of normalize_product_url on URLs of the form                      *)
(*   scheme://host [/segment]* [/last] [/]* [?query] [#fragment]           *)
(***************************************************************************)
\* number of path segments before the last one
MaxPrefix == 3

\* number of slashes after the last segment
MaxTrailing == 1

UrlHosts == {"site.com", "ohora.co.jp"}

PrefixSegments == {"collections", "x", "products"}

\* "" : the path has no last segment
LastSegments == {"abc-1", "set-134-j", ""}

\* what follows the path; a query may itself hold a slash
UrlTails ==
    { <<>>, <<"?", "query=1">>, <<"#", "top">>, <<"?", "query=1", "#", "top">>,
      <<"?", "next=", "/", "cart">> }

RECURSIVE Slashed(_)
Slashed(segs) == IF segs = <<>> THEN <<>> ELSE <<"/", Head(segs)>> \o Slashed(Tail(segs))

Slashes(n) == [i \in 1..n |-> "/"]

MakeUrl(host, prefix, last, trailing, tail) ==
    <<"https:", "/", "/", host>>
      \o Slashed(prefix)
      \o (IF last = "" THEN <<>> ELSE <<"/", last>>)
      \o Slashes(trailing)
      \o tail

UrlInputs ==
    { MakeUrl(host, prefix, last, trailing, tail) :
        host \in UrlHosts, prefix \in BoundedSeq(PrefixSegments, MaxPrefix),
        last \in LastSegments, trailing \in 0..MaxTrailing, tail \in UrlTails }

Normalize ==
    /\ handle_out = <<>>
    /\ handle_out' = <<normalize_product_url(url_in)>>
    /\ UNCHANGED url_in
    /\ UNCHANGED <<reconVars, batchVars, mainVars, storeVars, histVars>>

InitUrl ==
    /\ source = "generic_results"
    /\ cols = BaseCols
    /\ ReconIdle
    /\ extStore = <<>>
    /\ BatchIdle
    /\ MainIdle
    /\ url_in \in UrlInputs
    /\ handle_out = <<>>
    /\ StoreIdle
    /\ HistIdle

NextUrl == Normalize

SpecUrl == InitUrl /\ [][NextUrl]_vars

(***************************************************************************)
(* Titles of the scraped records and the list run() returns.               *)
(* DisneyScraper.handle_new_listing assigns the translated title to the    *)
(* record it was given, which is an element of the list scrape() returned. *)
(***************************************************************************)
\* a title as scraped: written in Japanese, or already in English
Titles == { [lang |-> "ja", text |-> "Mickey"], [lang |-> "en", text |-> "Mickey"] }

contains_japanese(title) == title.lang = "ja"

\* common/translation.py: a name holding Japanese characters is translated,
\* any other name (single-spaced, stripped) is returned as it is
clean_product_name(title) ==
    IF contains_japanese(title) THEN [lang |-> "en", text |-> title.text] ELSE title

\* the row process_single_result reads for the i-th listing of rs
RowRead(tcols, d, rs, i) ==
    ProcessLoop(tcols, [db |-> d, sent |-> <<>>, writes |-> <<>>],
                SubSeq(rs, 1, i - 1), 1).db[rs[i].url]

\* the titles of the records of the list after process_results has run
TitlesAfter(src, tcols, d, rs, titles) ==
    [i \in DOMAIN rs |->
       IF src = "disney_results" /\ RowRead(tcols, d, rs, i) = NoRow
       THEN clean_product_name(titles[i])      \* result['title'] = ...
       ELSE titles[i]]

RunTitled ==
    /\ pc = "idle"
    /\ \E rs \in BoundedSeq(Records(source), MaxBatch) :
         \E titles \in [DOMAIN rs -> Titles] :
           /\ RunBody(rs)
           /\ scraped_titles' = titles
           /\ returned_titles' = TitlesAfter(source, cols, db, rs, titles)
    /\ UNCHANGED prevStock
    /\ UNCHANGED <<batchVars, mainVars, urlVars, storeVars>>

ReturnTitled ==
    /\ ReturnBody
    /\ scraped_titles' = <<>>
    /\ returned_titles' = <<>>
    /\ UNCHANGED prevStock
    /\ UNCHANGED <<batchVars, mainVars, urlVars, storeVars>>

NextTitled == RunTitled \/ ReturnTitled

SpecTitled == Init /\ [][NextTitled]_vars

(***************************************************************************)
(* Consecutive runs of the stock-tracked source over one listing, with the *)
(* stock each run observed remembered for the next one                     *)
(***************************************************************************)
\* stock levels on both sides of the threshold 50
SeqStocks == {44, 48, 55, 60}

RunStockSeq ==
    /\ pc = "idle"
    /\ \E r \in DisneyRecordsOver({"u1"}, SeqStocks) : RunBody(<<r>>)
    /\ UNCHANGED histVars
    /\ UNCHANGED <<batchVars, mainVars, urlVars, storeVars>>

ReturnStockSeq ==
    /\ ReturnBody
    /\ prevStock' = results[1].stock
    /\ UNCHANGED <<scraped_titles, returned_titles>>
    /\ UNCHANGED <<batchVars, mainVars, urlVars, storeVars>>

NextStockSeq == RunStockSeq \/ ReturnStockSeq

SpecStockSeq == InitStock /\ [][NextStockSeq]_vars

(***************************************************************************)
(* BaseScraper.process_results_with_store_updates: the per-source store    *)
(* path taken when upload_new_products or sync_product_statuses is set     *)
(***************************************************************************)
\* listings per run of a source with store updates
MaxSync == 1

\* the scraped url of a listing, as the tokens normalize_product_url reads
ListingUrl(u) == IF u = "u1" THEN Url_h1 ELSE Url_h2_slash

SyncRecords ==
    [url : URLs, price : {"1000"}, status : {IN_STOCK, SoldOutCaps}, stock : {NoKey}]

\* upload only (the configuration of every scraper of main.py), sync only
\* without a brand, and both
SyncConfigs ==
    { [upload |-> TRUE, sync |-> FALSE, brand |-> TRUE],
      [upload |-> FALSE, sync |-> TRUE, brand |-> FALSE],
      [upload |-> TRUE, sync |-> TRUE, brand |-> TRUE] }

\* the request of the run that fails, if any ("write": update and upsert)
FailurePoints == {"none", "login", "brands", "snapshot", "write"}

StoreCall(fn, arg) == [fn |-> fn, arg |-> arg]

\* get_brand_id: the id, or None on any failure or unknown brand
get_brand_id(ok) == IF ok THEN <<"id">> ELSE None

\* 1. status syncing: one record per listing whose activity differs
RECURSIVE SyncProductsToUpdate(_, _, _, _)
SyncProductsToUpdate(rs, existing_by_handle, i, queue) ==
    IF i > Len(rs) THEN queue
    ELSE LET handle == normalize_product_url(ListingUrl(rs[i].url))
             scraped_is_active == Contains(IN_STOCK, Lower(rs[i].status))
         IN  SyncProductsToUpdate(rs, existing_by_handle, i + 1,
               IF /\ DictHas(existing_by_handle, handle)
                  /\ scraped_is_active # ExistingIsActive(DictGet(existing_by_handle, handle))
               THEN Append(queue,
                      [product_url |-> DictGet(existing_by_handle, handle).product_url,
                       is_active |-> IF scraped_is_active THEN 1 ELSE 0,
                       name |-> <<>>])
               ELSE queue)

\* new_product_urls = [p['url'] for p in results if handle not in existing_by_handle]
RECURSIVE NewProductUrls(_, _, _)
NewProductUrls(rs, existing_by_handle, i) ==
    IF i > Len(rs) THEN <<>>
    ELSE (IF DictHas(existing_by_handle, normalize_product_url(ListingUrl(rs[i].url)))
          THEN <<>> ELSE <<ListingUrl(rs[i].url)>>)
         \o NewProductUrls(rs, existing_by_handle, i + 1)

\* 2. new product upload: upsert_product for every url whose details came back
UpsertCalls(new_product_urls, details) ==
    IF details
    THEN [k \in DOMAIN new_product_urls |-> StoreCall("upsert_product", new_product_urls[k])]
    ELSE <<>>

\* the steps after the token and the brand id were obtained
StoreSteps(c, rs, fail, details, store) ==
    LET existing_by_handle ==
            ExistingByHandle(get_existing_products_status(fail # "snapshot", store), 1, <<>>)
        products_to_update == SyncProductsToUpdate(rs, existing_by_handle, 1, <<>>)
    IN  <<StoreCall("get_existing_products_status", <<>>)>>
        \o (IF c.sync /\ products_to_update # <<>>
            THEN <<StoreCall("update_product_statuses", products_to_update)>> ELSE <<>>)
        \o (IF c.upload
            THEN UpsertCalls(NewProductUrls(rs, existing_by_handle, 1), details) ELSE <<>>)

\* faulty variant: a failed login returns without the standard processing
process_results_with_store_updates_NoFallback(c, rs, fail, details, store) ==
    IF rs = <<>> THEN [calls |-> <<>>, recon |-> 0]
    ELSE IF get_admin_token(fail # "login") = None
    THEN [calls |-> <<StoreCall("get_admin_token", <<>>)>>, recon |-> 0]
    ELSE IF c.brand /\ get_brand_id(fail # "brands") = None
    THEN [calls |-> <<StoreCall("get_admin_token", <<>>), StoreCall("get_brand_id", <<>>)>>,
          recon |-> 1]
    ELSE [calls |-> <<StoreCall("get_admin_token", <<>>)>>
                      \o (IF c.brand THEN <<StoreCall("get_brand_id", <<>>)>> ELSE <<>>)
                      \o StoreSteps(c, rs, fail, details, store),
          recon |-> 1]

\* the requests made, in order, and the number of process_results calls
process_results_with_store_updates(c, rs, fail, details, store) ==
    IF rs = <<>> THEN [calls |-> <<>>, recon |-> 0]
    ELSE IF get_admin_token(fail # "login") = None
    THEN [calls |-> <<StoreCall("get_admin_token", <<>>)>>, recon |-> 1]
    ELSE IF c.brand /\ get_brand_id(fail # "brands") = None
    THEN [calls |-> <<StoreCall("get_admin_token", <<>>), StoreCall("get_brand_id", <<>>)>>,
          recon |-> 1]
    ELSE [calls |-> <<StoreCall("get_admin_token", <<>>)>>
                      \o (IF c.brand THEN <<StoreCall("get_brand_id", <<>>)>> ELSE <<>>)
                      \o StoreSteps(c, rs, fail, details, store),
          recon |-> 1]

\* the store's effect of one accepted POST /api/scrape/upsert: a product
\* with that product_url is created unless there is one
ApplyUpsert(store, product_url) ==
    IF \E i \in DOMAIN store : store[i].product_url = product_url THEN store
    ELSE Append(store, [product_url |-> product_url, is_active |-> 1])

RECURSIVE StoreAfterRun(_, _, _)
StoreAfterRun(store, calls, k) ==
    IF k > Len(calls) THEN store
    ELSE StoreAfterRun(
           IF calls[k].fn = "update_product_statuses"
           THEN ApplyUpdates(store, calls[k].arg, 1)
           ELSE IF calls[k].fn = "upsert_product"
           THEN ApplyUpsert(store, calls[k].arg)
           ELSE store,
           calls, k + 1)

RunWithStore ==
    /\ pc = "idle"
    /\ \E rs \in BoundedSeq(SyncRecords, MaxSync), fail \in FailurePoints,
          details \in BOOLEAN :
         /\ fail = "brands" => cfg.brand
         /\ LET out == process_results_with_store_updates(cfg, rs, fail, details, extStore) IN
            /\ RunRecon(rs, out.recon)
            /\ storeCalls' = out.calls
            /\ reconCalls' = out.recon
            /\ storeBefore' = extStore
            /\ extStore' = IF fail = "write" THEN extStore
                           ELSE StoreAfterRun(extStore, out.calls, 1)
    /\ UNCHANGED cfg
    /\ UNCHANGED <<bpc, all_scraped_products, authOk, fetchOk, existing_products,
                   authCalls, fetchCalls, updateCalls>>
    /\ UNCHANGED <<mainVars, urlVars, histVars>>

ReturnWithStore ==
    /\ ReturnBody
    /\ storeCalls' = <<>>
    /\ reconCalls' = 0
    /\ storeBefore' = <<>>
    /\ UNCHANGED cfg
    /\ UNCHANGED <<batchVars, mainVars, urlVars, histVars>>

\* a source with store updates; the store lists the product h1 or nothing
InitWithStore ==
    /\ source = "generic_results"
    /\ cols = BaseCols
    /\ ReconIdle
    /\ extStore \in { st \in ExtStores :
                        \A i \in DOMAIN st : st[i].product_url = ExtUrl_h1 }
    /\ BatchIdle
    /\ MainIdle
    /\ UrlIdle
    /\ cfg \in SyncConfigs
    /\ storeCalls = <<>>
    /\ reconCalls = 0
    /\ storeBefore = <<>>
    /\ HistIdle

NextWithStore == RunWithStore \/ ReturnWithStore

SpecWithStore == InitWithStore /\ [][NextWithStore]_vars

(***************************************************************************)
(* Vocabulary of the properties                                            *)
(***************************************************************************)
\* the row process_single_result reads for the i-th listing of the batch
RowSeen(i) ==
    ProcessLoop(cols, [db |-> dbBefore, sent |-> <<>>, writes |-> <<>>],
                SubSeq(results, 1, i - 1), 1).db[results[i].url]

SentAt(i) == { k \in DOMAIN sent : sent[k].idx = i }

WritesAt(i) == { k \in DOMAIN writes : writes[k].idx = i }

SentFor(kind, u) == { k \in DOMAIN sent : sent[k].kind = kind /\ sent[k].url = u }

WritesFor(u) == { k \in DOMAIN writes : writes[k].url = u }

HasLine(changes, name) == \E j \in DOMAIN changes : changes[j].line = name

LineCount(changes, name) ==
    Cardinality({ j \in DOMAIN changes : changes[j].line = name })

StockTracked(row, r) == "stock" \in cols /\ r.stock # NoKey /\ row.stock # NULL

SameAsStored(row, r) ==
    /\ row.price = r.price
    /\ row.status = r.status
    /\ ("stock" \in cols /\ r.stock # NoKey => row.stock = r.stock)

\* the statuses of the model that contain 'sold out' or 'inactive' in any case
TerminalStatuses == {SOLD_OUT, SoldOutCaps, INACTIVE, InactiveCaps}

Absent(u) == u \notin { results[i].url : i \in DOMAIN results }

(***************************************************************************)
(* C1                                                                      *)
(***************************************************************************)
\* C1: every scraped listing whose url had no row before the run has, after
\* the run, a row, exactly one INSERT and exactly one "New Listing" send.
C1_NewListingInsertedAndNotified ==
    pc = "done" =>
      \A i \in DOMAIN results :
        dbBefore[results[i].url] = NoRow =>
          /\ db[results[i].url] # NoRow
          /\ Cardinality({ k \in WritesFor(results[i].url) : writes[k].op = "INSERT" }) = 1
          /\ Cardinality(SentFor("New Listing", results[i].url)) = 1

(***************************************************************************)
(* C2                                                                      *)
(***************************************************************************)
\* C2: a scraped listing equal to the row read for it (price, status and,
\* where the table and the record both carry it, stock) causes no statement
\* and no send; a batch all of whose listings equal their stored rows leaves
\* those rows as they were, so the same holds for the next run of that batch.
C2_IdenticalIsNoOp ==
    pc = "done" =>
      /\ \A i \in DOMAIN results :
           (RowSeen(i) # NoRow /\ SameAsStored(RowSeen(i), results[i]))
             => (SentAt(i) = {} /\ WritesAt(i) = {})
      /\ (\A i \in DOMAIN results :
            /\ dbBefore[results[i].url] # NoRow
            /\ SameAsStored(dbBefore[results[i].url], results[i]))
           => /\ \A i \in DOMAIN results :
                   db[results[i].url] = dbBefore[results[i].url]
              /\ \A k \in DOMAIN sent : sent[k].idx = 0
              /\ \A k \in DOMAIN writes : writes[k].idx = 0

C2_Witness ==
    /\ pc = "done"
    /\ cols = StockSchema
    /\ \E i \in DOMAIN results :
         /\ RowSeen(i) # NoRow
         /\ StockTracked(RowSeen(i), results[i])
         /\ SameAsStored(RowSeen(i), results[i])
         /\ SentAt(i) = {}

(***************************************************************************)
(* C3                                                                      *)
(***************************************************************************)
\* C3: a listing whose stored row has another price and the same status gets
\* exactly one send in the run, a "Listing Updated" whose change list has a
\* price line and no status line.
C3_PriceOnlyUpdate ==
    pc = "done" =>
      \A i \in DOMAIN results :
        (/\ RowSeen(i) # NoRow
         /\ RowSeen(i).price # results[i].price
         /\ RowSeen(i).status = results[i].status)
          => /\ Cardinality(SentAt(i)) = 1
             /\ \A k \in SentAt(i) :
                  /\ sent[k].kind = "Listing Updated"
                  /\ sent[k].url = results[i].url
                  /\ LineCount(sent[k].changes, "Price changed") = 1
                  /\ ~HasLine(sent[k].changes, "Status changed")

C3_Witness ==
    /\ pc = "done"
    /\ \E i \in DOMAIN results :
         /\ RowSeen(i) # NoRow
         /\ RowSeen(i).price # results[i].price
         /\ RowSeen(i).status = results[i].status
         /\ \E k \in SentAt(i) : HasLine(sent[k].changes, "Price changed")

(***************************************************************************)
(* C4                                                                      *)
(***************************************************************************)
AlertLinesAt(i) ==
    Cardinality({ kj \in (DOMAIN sent) \X (1..3) :
                    /\ sent[kj[1]].idx = i
                    /\ kj[2] \in DOMAIN sent[kj[1]].changes
                    /\ sent[kj[1]].changes[kj[2]].line = "STOCK ALERT" })

Crossed(old, new) ==
    new < old /\ \E t \in {50, 40, 30, 20, 10, 5} : old > t /\ new <= t

\* C4: for a stock-tracked listing with stored stock old and scraped stock
\* new, the run's notifications for it carry one STOCK ALERT line when
\* new < old and some threshold t has old > t and new <= t, and none otherwise.
C4_StockAlertIffCrossedOnce ==
    pc = "done" =>
      \A i \in DOMAIN results :
        (RowSeen(i) # NoRow /\ StockTracked(RowSeen(i), results[i]))
          => AlertLinesAt(i) =
               IF Crossed(RowSeen(i).stock[1], results[i].stock[1]) THEN 1 ELSE 0

C4_Witness ==
    /\ pc = "done"
    /\ \E i \in DOMAIN results :
         /\ RowSeen(i) # NoRow
         /\ RowSeen(i).stock = <<60>>
         /\ results[i].stock = <<25>>
         /\ AlertLinesAt(i) = 1

(***************************************************************************)
(* C5                                                                      *)
(***************************************************************************)
MarkedSoldOut(u) ==
    /\ db[u] # NoRow
    /\ db[u].status = SOLD_OUT
    /\ Cardinality(SentFor("Product Removed", u)) = 1

NonTerminalAndAbsent(u) ==
    /\ dbBefore[u] # NoRow
    /\ dbBefore[u].status \notin TerminalStatuses
    /\ Absent(u)

\* C5 as stated: after any run, also one whose scraped set is empty, every
\* stored non-terminal listing absent from the scraped set is 'sold out' and
\* had exactly one "Product Removed" send.
C5_MissingMarkedEveryRun ==
    pc = "done" => \A u \in URLs : NonTerminalAndAbsent(u) => MarkedSoldOut(u)

\* C5 amended: the same after any run whose scraped set is not empty.
C5_MissingMarkedNonEmptyRun ==
    (pc = "done" /\ results # <<>>) =>
      \A u \in URLs : NonTerminalAndAbsent(u) => MarkedSoldOut(u)

C5_Witness ==
    /\ pc = "done"
    /\ results # <<>>
    /\ \E u \in URLs : NonTerminalAndAbsent(u) /\ MarkedSoldOut(u)

(***************************************************************************)
(* C6                                                                      *)
(***************************************************************************)
\* C6: an absent listing whose stored status contains 'sold out' or
\* 'inactive' in any case keeps its row and gets no statement and no send;
\* and no url ever collects more than one "Product Removed" send between two
\* observations of it.
C6_TerminalMissingSkipped ==
    /\ pc = "done" =>
         \A u \in URLs :
           (/\ dbBefore[u] # NoRow
            /\ dbBefore[u].status \in TerminalStatuses
            /\ Absent(u))
             => /\ db[u] = dbBefore[u]
                /\ WritesFor(u) = {}
                /\ \A k \in DOMAIN sent : sent[k].url # u
    /\ \A u \in URLs : removedSinceSeen[u] <= 1

C6_Witness ==
    /\ pc = "done"
    /\ results # <<>>
    /\ \E u \in URLs :
         /\ Absent(u)
         /\ dbBefore[u] # NoRow
         /\ dbBefore[u].status = SOLD_OUT
         /\ removedSinceSeen[u] = 1
         /\ SentFor("Product Removed", u) = {}

(***************************************************************************)
(* Vocabulary of the aggregator properties                                 *)
(***************************************************************************)
\* all listings of the pass, source after source
RECURSIVE Flatten(_, _)
Flatten(all, k) ==
    IF k > Len(all) THEN <<>> ELSE all[k].products \o Flatten(all, k + 1)

Listings == Flatten(all_scraped_products, 1)

HandleOf(tokens) == normalize_product_url(tokens)

ObservedHandles ==
    { HandleOf(Listings[i].url) : i \in { j \in DOMAIN Listings : Listings[j].url # NoUrl } }

\* the listing the deduplication keeps for handle h
KeptListing(h) ==
    Listings[CHOOSE i \in DOMAIN Listings :
               /\ Listings[i].url # NoUrl
               /\ HandleOf(Listings[i].url) = h
               /\ \A j \in DOMAIN Listings :
                    (Listings[j].url # NoUrl /\ HandleOf(Listings[j].url) = h) => j <= i]

SnapshotHandles ==
    { HandleOf(existing_products[i].product_url) : i \in DOMAIN existing_products }

\* the external record the snapshot mapping holds for handle h
SnapshotProduct(h) ==
    existing_products[CHOOSE i \in DOMAIN existing_products :
               /\ HandleOf(existing_products[i].product_url) = h
               /\ \A j \in DOMAIN existing_products :
                    HandleOf(existing_products[j].product_url) = h => j <= i]

\* 'in stock' in any case, among the statuses of the model
ActiveStatuses == {IN_STOCK, IN_STOCK_CAPS}

QueuedIn(list) ==
    { ck \in (DOMAIN updateCalls) \X (1..4) :
        /\ updateCalls[ck[1]].list = list
        /\ ck[2] \in DOMAIN updateCalls[ck[1]].productsToUpdate }

Queued(ck) == updateCalls[ck[1]].productsToUpdate[ck[2]]

AllQueued == QueuedIn("products_to_update") \cup QueuedIn("missing_products_to_update")

(***************************************************************************)
(* C7                                                                      *)
(***************************************************************************)
\* C7: for every handle both observed and in the snapshot, the activation
\* queue holds a record for the external product exactly when the kept
\* listing's activity ('in stock' in its status, any case) differs from the
\* external active flag; the record carries the external product_url and
\* is_active 1 for an active listing, 0 otherwise.
C7_ActivationQueuedIffDiffers ==
    bpc = "done" =>
      \A h \in ObservedHandles \cap SnapshotHandles :
        LET active == KeptListing(h).status \in ActiveStatuses
            ext == SnapshotProduct(h)
            recs == { ck \in QueuedIn("products_to_update") :
                        Queued(ck).product_url = ext.product_url }
        IN  /\ (active # (ext.is_active = 1)) <=> (recs # {})
            /\ Cardinality(recs) <= 1
            /\ \A ck \in recs : Queued(ck).is_active = (IF active THEN 1 ELSE 0)

C7_Witness ==
    /\ bpc = "done"
    /\ "h1" \in ObservedHandles \cap SnapshotHandles
    /\ KeptListing("h1").status \in ActiveStatuses
    /\ KeptListing("h1").url # SnapshotProduct("h1").product_url
    /\ SnapshotProduct("h1").is_active = 0
    /\ \E ck \in QueuedIn("products_to_update") :
         /\ Queued(ck).product_url = SnapshotProduct("h1").product_url
         /\ Queued(ck).is_active = 1

(***************************************************************************)
(* C8                                                                      *)
(***************************************************************************)
RemovedName(h) == <<"(Removed) ", h>>

\* C8: a record named "(Removed) <handle>" is queued exactly for the handles
\* of the snapshot mapping that no source observed and whose external product
\* is active; it carries that product's product_url and is_active 0, and it
\* is queued once.
C8_RemovedQueuedIffUnobservedActive ==
    bpc = "done" =>
      \A h \in {"", "h1", "h2"} :
        LET recs == { ck \in AllQueued : Queued(ck).name = RemovedName(h) } IN
        /\ (recs # {}) <=>
             (/\ h \in SnapshotHandles
              /\ h \notin ObservedHandles
              /\ SnapshotProduct(h).is_active = 1)
        /\ Cardinality(recs) <= 1
        /\ \A ck \in recs :
             /\ Queued(ck).product_url = SnapshotProduct(h).product_url
             /\ Queued(ck).is_active = 0

C8_Witness ==
    /\ bpc = "done"
    /\ Listings # <<>>
    /\ "h2" \in SnapshotHandles \ ObservedHandles
    /\ SnapshotProduct("h2").is_active = 1
    /\ \E ck \in QueuedIn("missing_products_to_update") :
         Queued(ck) = [product_url |-> ExtUrl_h2, is_active |-> 0,
                       name |-> RemovedName("h2")]

(***************************************************************************)
(* C9                                                                      *)
(***************************************************************************)
\* C9: a pass whose login fails requests no snapshot, makes no update call
\* and leaves the external store as it was.
C9_AuthFailureAborts ==
    (bpc = "done" /\ ~authOk) =>
      /\ fetchCalls = 0
      /\ updateCalls = <<>>
      /\ existing_products = <<>>

C9_Witness ==
    /\ bpc = "done"
    /\ ~authOk
    /\ authCalls = 1
    /\ \E i \in DOMAIN extStore :
         /\ extStore[i].is_active = 1
         /\ HandleOf(extStore[i].product_url) \notin ObservedHandles

(***************************************************************************)
(* C10                                                                     *)
(***************************************************************************)
\* C10: a pass whose snapshot request fails makes no update call, neither
\* for changed statuses nor for removed products.
C10_SnapshotFailureNoUpdate ==
    (bpc = "done" /\ authOk /\ ~fetchOk) => updateCalls = <<>>

C10_Witness ==
    /\ bpc = "done"
    /\ authOk
    /\ ~fetchOk
    /\ fetchCalls = 1
    /\ ObservedHandles # {}
    /\ \E i \in DOMAIN extStore :
         /\ extStore[i].is_active = 1
         /\ HandleOf(extStore[i].product_url) \notin ObservedHandles

(***************************************************************************)
(* C11                                                                     *)
(***************************************************************************)
\* C11: one aggregation pass invokes update_product_statuses at most once,
\* with the activation changes and the deactivations of unobserved products
\* in the same call.
C11_SingleBatchedCall == bpc = "done" => Len(updateCalls) <= 1

(***************************************************************************)
(* C12                                                                     *)
(***************************************************************************)
\* the row read for the i-th listing when every listing before it was handled
RowSeenFaulty(i) ==
    ProcessLoopFaulty(cols, [db |-> dbBefore, sent |-> <<>>, writes |-> <<>>],
                      SubSeq(results, 1, i - 1), SubSeq(item_faults, 1, i - 1),
                      1).db[results[i].url]

\* C12: whatever fails for one listing of the batch, every listing handled
\* without failure is reconciled and committed: it has a row after the run,
\* one INSERT when it had none, one UPDATE when its row differed; and every
\* absent non-terminal listing whose handling did not fail is 'sold out'.
C12_FaultIsolated ==
    pc = "done" =>
      /\ \A i \in DOMAIN results :
           item_faults[i] = "none" =>
             LET row == RowSeenFaulty(i) IN
             /\ db[results[i].url] # NoRow
             /\ row = NoRow =>
                  Cardinality({ k \in WritesAt(i) : writes[k].op = "INSERT" }) = 1
             /\ (row # NoRow /\ ~SameAsStored(row, results[i])) =>
                  Cardinality({ k \in WritesAt(i) : writes[k].op = "UPDATE" }) = 1
      /\ \A u \in URLs :
           (NonTerminalAndAbsent(u) /\ u \notin missing_faults /\ results # <<>>)
             => db[u].status = SOLD_OUT

(***************************************************************************)
(* Vocabulary of the script-style sources                                  *)
(***************************************************************************)
ObservedInPass(u) == u \in ObservedUrls(results)

Dropped(u) == dbBefore[u] # NoRow /\ db[u] = NoRow

(***************************************************************************)
(* C13                                                                     *)
(***************************************************************************)
\* C13: a stored listing absent from a pass's scrape loses its row in that
\* pass only if the table counts failures and the pass raised its counter to
\* the limit; a first absence never deletes.
C13_NoDropOnFirstAbsence ==
    pc = "done" =>
      \A u \in URLs :
        (Dropped(u) /\ ~ObservedInPass(u))
          => /\ dbBefore[u].failed_parse # NoKey
             /\ dbBefore[u].failed_parse[1] + 1 >= failed_parse_limit

(***************************************************************************)
(* C14                                                                     *)
(***************************************************************************)
Counter(row) == row.failed_parse[1]

Started(name, k) ==
    \E j \in 1..k : mainLog[j] = [ev |-> "start", name |-> name]

Ended(name, k) ==
    \E j \in 1..k : mainLog[j] = [ev |-> "end", name |-> name]

\* C16: at most one step of main() is in flight; a step starts only when the
\* step before it has ended; and when batch_update_store starts, every
\* source whose results it is given has started and ended.
C16_SequentialThenBatch ==
    /\ Cardinality(inflight) <= 1
    /\ \A k \in DOMAIN mainLog :
         mainLog[k].ev = "start" => (k = 1 \/ mainLog[k - 1].ev = "end")
    /\ \A k \in DOMAIN mainLog :
         mainLog[k] = [ev |-> "start", name |-> "batch_update_store"] =>
           /\ \A name \in Aggregated \cup {"ohora"} : Ended(name, k - 1)
           /\ { all_scraped_products[i].name : i \in DOMAIN all_scraped_products }
                = Aggregated

C16_Witness ==
    /\ inflight = {"batch_update_store"}
    /\ Len(all_scraped_products) = Cardinality(Aggregated)
    /\ "seven_nana_jp" \in fetchFailed
    /\ all_scraped_products[1].products # <<>>

(***************************************************************************)
(* C19                                                                     *)
(***************************************************************************)
\* C19: a pass of main() in which the fetch of some source failed still runs
\* every step to its end, the aggregation step included, and is not ended
\* by an exception.
C19_FailedFetchSkipsOnlyThatSource ==
    (MainEnded /\ fetchFailed # {}) =>
      /\ ~mainRaised
      /\ \A k \in DOMAIN MainSteps : Ended(MainSteps[k], Len(mainLog))

(***************************************************************************)
(* C17                                                                     *)
(***************************************************************************)
\* the table the interrupted pass would have left had it run to its end
FullyUpdated ==
    RetirePass(source, dbBefore, results,
               CHOOSE order \in RetireOrders(source, dbBefore, results) : TRUE).committed

\* C17: a pass killed before its end leaves persisted either the table as it
\* was before the pass or the table the whole pass would have left, never
\* one with only some of the pass's mutations.
C17_InterruptedPassIsAtomic ==
    pc = "interrupted" => db \in {dbBefore, FullyUpdated}

(***************************************************************************)
(* C18                                                                     *)
(***************************************************************************)
\* the statement a send reports: same listing, executed after the send before
\* it and before the send itself
MutationOf(k) ==
    { w \in DOMAIN writes :
        /\ writes[w].idx = sent[k].idx
        /\ writes[w].url = sent[k].url
        /\ writes[w].sentBefore = k - 1 }

SendsLike(k) ==
    { j \in DOMAIN sent :
        sent[j].idx = sent[k].idx /\ sent[j].url = sent[k].url }

\* C18: for every send Discord refused, the run made that send once only,
\* had executed the statement it reports before making it, went on to its
\* commit, and the row is persisted: present for a new or updated listing,
\* 'sold out' for a removed one.
C18_FailedSendKeepsMutation ==
    pc = "done" =>
      \A k \in DOMAIN sent :
        ~sendOk[k] =>
          /\ Cardinality(SendsLike(k)) = 1
          /\ Cardinality(MutationOf(k)) = 1
          /\ db[sent[k].url] # NoRow
          /\ sent[k].kind = "Product Removed" => db[sent[k].url].status = SOLD_OUT
          /\ Len(writes) = Len(sent)

C18_Witness ==
    /\ pc = "done"
    /\ \E a, b, c \in DOMAIN sent :
         /\ sent[a].kind = "New Listing" /\ ~sendOk[a]
         /\ sent[b].kind = "Listing Updated" /\ ~sendOk[b]
         /\ sent[c].kind = "Product Removed" /\ ~sendOk[c]
         /\ a < b /\ b < c
         /\ dbBefore[sent[a].url] = NoRow
         /\ db[sent[c].url].status = SOLD_OUT

(***************************************************************************)
(* C20                                                                     *)
(***************************************************************************)
\* the tokens of the path: after scheme://host, up to the first ? or #
PathRegion(url) ==
    { i \in 5..Len(url) : \A j \in 5..i : url[j] \notin {"?", "#"} }

SegmentPositions(url) == { i \in PathRegion(url) : url[i] # "/" }

\* the last non-empty segment of the path, "" when the path has none
LastNonEmptySegment(url) ==
    IF SegmentPositions(url) = {} THEN ""
    ELSE url[CHOOSE i \in SegmentPositions(url) :
               \A j \in SegmentPositions(url) : j <= i]

Example_Collections ==
    <<"https:", "/", "/", "site.com", "/", "collections", "/", "x", "/",
      "products", "/", "abc-1", "?", "query=1">>

Example_Products ==
    <<"https:", "/", "/", "site.com", "/", "products", "/", "abc-1">>

\* C20: normalize_product_url returns the last non-empty segment of the
\* path, whatever the host, the segments before it, the slashes after it and
\* the query or fragment; the two example URLs both give abc-1.
C20_HandleIsLastSegment ==
    handle_out # <<>> =>
      /\ handle_out[1] = LastNonEmptySegment(url_in)
      /\ url_in \in {Example_Collections, Example_Products} => handle_out = <<"abc-1">>

C20_Witness ==
    /\ url_in = Example_Collections \o <<"#", "top">>
         \/ url_in = <<"https:", "/", "/", "ohora.co.jp", "/", "x", "/", "abc-1", "/",
                       "?", "next=", "/", "cart">>
    /\ handle_out = <<"abc-1">>

(***************************************************************************)
(* C21                                                                     *)
(***************************************************************************)
\* the mapping the deduplication loop of the pass builds
UniqueOfPass == UniqueScrapedProducts(all_scraped_products, 1, <<>>)

Occurrences(h) ==
    { i \in DOMAIN Listings : Listings[i].url # NoUrl /\ HandleOf(Listings[i].url) = h }

\* C21: for every handle some listing of the pass has, the deduplicated
\* mapping holds exactly one entry, the last listing of that handle in source
\* order then list order; a queued activation change for the handle carries
\* that listing's title and the activity of that listing's status.
C21_LastOccurrenceWins ==
    (bpc = "done" /\ authOk /\ fetchOk) =>
      /\ DictKeys(UniqueOfPass) = ObservedHandles
      /\ \A h \in ObservedHandles :
           /\ Cardinality({ i \in DOMAIN UniqueOfPass : UniqueOfPass[i].key = h }) = 1
           /\ DictGet(UniqueOfPass, h) = KeptListing(h)
           /\ \E i \in Occurrences(h) :
                /\ \A j \in Occurrences(h) : j <= i
                /\ DictGet(UniqueOfPass, h) = Listings[i]
           /\ h \in SnapshotHandles =>
                \A ck \in QueuedIn("products_to_update") :
                  Queued(ck).product_url = SnapshotProduct(h).product_url =>
                    /\ Queued(ck).name = <<KeptListing(h).title>>
                    /\ Queued(ck).is_active =
                         (IF KeptListing(h).status \in ActiveStatuses THEN 1 ELSE 0)

\* the same handle twice in the first source and once more in the second;
\* the last one is sold out and deactivates the external product
C21_Witness ==
    /\ bpc = "done"
    /\ Len(all_scraped_products[1].products) = 2
    /\ all_scraped_products[1].products[1].status = SOLD_OUT
    /\ all_scraped_products[1].products[2].status = IN_STOCK
    /\ Len(all_scraped_products[2].products) = 1
    /\ all_scraped_products[2].products[1].title = "Set 1 (sold)"
    /\ Cardinality(Occurrences("h1")) = 3
    /\ \E ck \in QueuedIn("products_to_update") :
         Queued(ck).name = <<"Set 1 (sold)">> /\ Queued(ck).is_active = 0

(***************************************************************************)
(* C22                                                                     *)
(***************************************************************************)
\* the row of the i-th listing's url right after the listing was handled
RowAfter(i) ==
    ProcessLoop(cols, [db |-> dbBefore, sent |-> <<>>, writes |-> <<>>],
                SubSeq(results, 1, i), 1).db[results[i].url]

ClassifiedUpdated(i) ==
    /\ RowSeen(i) # NoRow
    /\ ListingChanges(cols, RowSeen(i), results[i]) # <<>>

LastOfItsUrl(i) == \A j \in DOMAIN results : results[j].url = results[i].url => j <= i

\* C22: for a listing whose comparison with its stored row gave a change,
\* the row right after it was handled has the record's price, status and,
\* when the record carries one, stock; comparing the record with that row
\* again gives no change; one UPDATE was executed for it; and the row the run
\* leaves for the url is the one written for the url's last listing.
C22_UpdateWritesWholeRecord ==
    pc = "done" =>
      \A i \in DOMAIN results :
        ClassifiedUpdated(i) =>
          /\ RowAfter(i).price = results[i].price
          /\ RowAfter(i).status = results[i].status
          /\ results[i].stock # NoKey => RowAfter(i).stock = results[i].stock
          /\ ListingChanges(cols, RowAfter(i), results[i]) = <<>>
          /\ Cardinality({ k \in WritesAt(i) : writes[k].op = "UPDATE" }) = 1
          /\ LastOfItsUrl(i) => db[results[i].url] = RowAfter(i)

\* a price, a status and a stock change at once
C22_Witness ==
    /\ pc = "done"
    /\ cols = StockSchema
    /\ \E i \in DOMAIN results :
         /\ ClassifiedUpdated(i)
         /\ LastOfItsUrl(i)
         /\ RowSeen(i).price # results[i].price
         /\ RowSeen(i).status # results[i].status
         /\ RowSeen(i).stock = <<60>>
         /\ db[results[i].url] =
              [price |-> results[i].price, status |-> results[i].status, stock |-> <<0>>]

(***************************************************************************)
(* C23                                                                     *)
(***************************************************************************)
\* C23: the list a run returns holds the records scrape() produced, each
\* with the title it was scraped with, for the source that overrides
\* handle_new_listing as for the others.
C23_ReturnedListUnchanged ==
    pc = "done" => returned_titles = scraped_titles

(***************************************************************************)
(* C24                                                                     *)
(***************************************************************************)
\* C24: a run whose scraped list is empty executes no statement, sends
\* nothing and leaves every row, in particular every status, as it was.
C24_EmptyListIsNoOp ==
    (pc = "done" /\ results = <<>>) =>
      /\ writes = <<>>
      /\ sent = <<>>
      /\ db = dbBefore
      /\ \A u \in URLs : dbBefore[u] # NoRow => db[u].status = dbBefore[u].status

\* an empty run over a table holding a listing that is not sold out
C24_Witness ==
    /\ pc = "done"
    /\ results = <<>>
    /\ \E u \in URLs :
         /\ dbBefore[u] # NoRow
         /\ dbBefore[u].status = IN_STOCK
         /\ db[u] = dbBefore[u]
    /\ sent = <<>>

(***************************************************************************)
(* C25                                                                     *)
(***************************************************************************)
SentAbout(u) == { k \in DOMAIN sent : sent[k].url = u }

\* C25: one run sends at most one notification about any url, also when its
\* batch lists the url more than once.
C25_AtMostOneNotificationPerUrl ==
    pc = "done" => \A u \in URLs : Cardinality(SentAbout(u)) <= 1

(***************************************************************************)
(* C26                                                                     *)
(***************************************************************************)
\* C26: whenever the stock a run observes is at or below a threshold that
\* the stock observed by the preceding run was above, the run's notification
\* for the listing carries a STOCK ALERT line.
C26_AlertOnEveryObservedCrossing ==
    (pc = "done" /\ prevStock # <<>>) =>
      \A i \in DOMAIN results :
        (\E k \in DOMAIN alert_thresholds :
           /\ prevStock[1] > alert_thresholds[k]
           /\ results[i].stock[1] <= alert_thresholds[k])
          => AlertLinesAt(i) >= 1

(***************************************************************************)
(* C27                                                                     *)
(***************************************************************************)
CallsOf(fn) == { k \in DOMAIN storeCalls : storeCalls[k].fn = fn }

\* the statements and sends of the run are those of one process_results call
ReconciledOnce ==
    \E order \in Orders(missing_urls(dbBefore, results)) :
      LET t == process_results(cols, dbBefore, results, order) IN
      /\ db = t.db
      /\ sent = t.sent
      /\ writes = t.writes

\* C27: a run with store updates enabled that scraped something calls
\* process_results exactly once, whichever request to the store failed
\* (login, brand lookup, snapshot, update or upsert) or none; and on every
\* path, the empty list included, the table and the notifications are those
\* of one process_results call on the scraped list.
C27_ReconciledExactlyOnce ==
    pc = "done" =>
      /\ results # <<>> => reconCalls = 1
      /\ reconCalls <= 1
      /\ ReconciledOnce

\* the upsert of a new product was refused by the store; the listing was
\* inserted and announced all the same
C27_Witness ==
    /\ pc = "done"
    /\ CallsOf("upsert_product") # {}
    /\ extStore = storeBefore
    /\ reconCalls = 1
    /\ \E k \in DOMAIN sent : sent[k].kind = "New Listing"

(***************************************************************************)
(* C28                                                                     *)
(***************************************************************************)
CatalogHandles == { HandleOf(storeBefore[i].product_url) : i \in DOMAIN storeBefore }

\* C28: every upsert_product call of a run is for a listing whose handle
\* the store's catalog did not hold when the run started, also when the
\* snapshot request of the run failed.
C28_UpsertOnlyNewHandles ==
    pc = "done" =>
      \A k \in CallsOf("upsert_product") : HandleOf(storeCalls[k].arg) \notin CatalogHandles

(***************************************************************************)
(* C29                                                                     *)
(***************************************************************************)
\* the pass got its token and its snapshot and the store accepted every call
PassSucceeded ==
    /\ bpc = "done"
    /\ authOk
    /\ fetchOk
    /\ \A k \in DOMAIN updateCalls : updateCalls[k].accepted

DistinctHandles ==
    \A i, j \in DOMAIN extStore :
      i # j => HandleOf(extStore[i].product_url) # HandleOf(extStore[j].product_url)

\* the update calls of a further pass over the same listings
SecondPassCalls ==
    { batch_update_store(all_scraped_products, TRUE, TRUE, extStore, order).updateCalls :
        order \in Orders(MissingOfPass(all_scraped_products, TRUE, TRUE, extStore)) }

\* C29: after a pass that succeeded, over a store whose products have
\* pairwise distinct handles, every product whose handle was observed is
\* active exactly when the kept listing is active, every other product is
\* inactive, and a further pass over the same listings makes no update call.
C29_StoreConvergesAndPassIsIdempotent ==
    (PassSucceeded /\ DistinctHandles) =>
      /\ \A i \in DOMAIN extStore :
           LET h == HandleOf(extStore[i].product_url) IN
           IF h \in ObservedHandles
           THEN (extStore[i].is_active = 1) <=> (KeptListing(h).status \in ActiveStatuses)
           ELSE extStore[i].is_active = 0
      /\ SecondPassCalls = {<<>>}

\* a pass that deactivated a sold-out product and an unobserved one
C29_Witness ==
    /\ PassSucceeded
    /\ DistinctHandles
    /\ Len(updateCalls) = 2
    /\ Len(extStore) = 2
    /\ ObservedHandles # {}
    /\ \A i \in DOMAIN extStore : extStore[i].is_active = 0
    /\ \A i \in DOMAIN existing_products : existing_products[i].is_active = 1

(***************************************************************************)
(* C30                                                                     *)
(***************************************************************************)
\* the handles of the products the site of a source sells
SoldBy(name) ==
    IF name = "seven_nana_jp" THEN {"h2"}
    ELSE IF name = "ohora_jp" THEN {"h1"}
    ELSE {}

\* C30: the aggregation step of a pass queues no deactivation for a product
\* sold by a source whose fetch failed in that pass.
C30_FailedFetchDeactivatesNothing ==
    bpc = "done" =>
      \A name \in fetchFailed :
        \A ck \in QueuedIn("missing_products_to_update") :
          HandleOf(Queued(ck).product_url) \notin SoldBy(name)

====
